---- MODULE Spec2Model ----
(***************************************************************************)
(* A model of the sdapi/v1 client of go-sd-webui-cli (src/client.go, and   *)
(* its earlier version src/unnamed/part_000).                              *)
(* Go strings are sequences of one-character strings, []byte values are    *)
(* sequences of numbers in 0..255.  The calls into the Go standard library *)
(* (encoding/base64, image/png, encoding/json, net/http, net/url, fmt) are *)
(* modelled by operators that compute what the library computes on the     *)
(* values used here; the PNG container is reduced to its 8-byte signature  *)
(* followed by a width byte and a height byte.                             *)
(***************************************************************************)
EXTENDS Integers, Sequences, FiniteSets, TLC

(***************************************************************************)
(* Bounds of the model.                                                    *)
(***************************************************************************)
\* longest "images" array a modelled server response carries
MaxImages == 2

(***************************************************************************)
(* Strings and fmt.                                                        *)
(***************************************************************************)
Digits == <<"0", "1", "2", "3", "4", "5", "6", "7", "8", "9">>

\* fmt's %d of a non-negative int
RECURSIVE Itoa(_)
Itoa(n) ==
    IF n < 10 THEN <<Digits[n + 1]>>
    ELSE Itoa(n \div 10) \o <<Digits[(n % 10) + 1]>>

\* fmt's %v of a bool
FormatBool(b) == IF b THEN <<"t", "r", "u", "e">> ELSE <<"f", "a", "l", "s", "e">>

\* strings.Contains
Contains(s, sub) ==
    \E i \in 1..(Len(s) - Len(sub) + 1) : SubSeq(s, i, i + Len(sub) - 1) = sub

\* position of the first sep in s, 0 when there is none (strings.Index + 1)
IndexOf(s, sep) ==
    IF \E i \in 1..Len(s) : s[i] = sep
    THEN CHOOSE i \in 1..Len(s) : s[i] = sep /\ \A j \in 1..(i - 1) : s[j] # sep
    ELSE 0

\* strings.SplitN(s, sep, n) for a one-character sep and n >= 0: at most n
\* substrings, the last one being the unsplit remainder; n = 0 gives none.
RECURSIVE SplitN(_, _, _)
SplitN(s, sep, n) ==
    IF n = 0 THEN <<>>
    ELSE IF n = 1 \/ IndexOf(s, sep) = 0 THEN <<s>>
    ELSE <<SubSeq(s, 1, IndexOf(s, sep) - 1)>>
         \o SplitN(SubSeq(s, IndexOf(s, sep) + 1, Len(s)), sep, n - 1)

(***************************************************************************)
(* encoding/base64, StdEncoding (padded, standard alphabet).               *)
(***************************************************************************)
B64Chars ==
    <<"A", "B", "C", "D", "E", "F", "G", "H", "I", "J", "K", "L", "M", "N", "O", "P", "Q", "R", "S", "T", "U", "V", "W", "X", "Y", "Z", "a", "b", "c", "d", "e", "f", "g", "h", "i", "j", "k", "l", "m", "n", "o", "p", "q", "r", "s", "t", "u", "v", "w", "x", "y", "z", "0", "1", "2", "3", "4", "5", "6", "7", "8", "9", "+", "/">>

B64Set == {B64Chars[i] : i \in 1..64}

B64Val(ch) == (CHOOSE i \in 1..64 : B64Chars[i] = ch) - 1

B64Char(v) == B64Chars[v + 1]

\* base64.StdEncoding.EncodeToString
RECURSIVE B64Encode(_)
B64Encode(b) ==
    IF Len(b) = 0 THEN <<>>
    ELSE IF Len(b) = 1 THEN
        <<B64Char(b[1] \div 4), B64Char((b[1] % 4) * 16), "=", "=">>
    ELSE IF Len(b) = 2 THEN
        <<B64Char(b[1] \div 4),
          B64Char((b[1] % 4) * 16 + b[2] \div 16),
          B64Char((b[2] % 16) * 4), "=">>
    ELSE
        <<B64Char(b[1] \div 4),
          B64Char((b[1] % 4) * 16 + b[2] \div 16),
          B64Char((b[2] % 16) * 4 + b[3] \div 64),
          B64Char(b[3] % 64)>>
        \o B64Encode(SubSeq(b, 4, Len(b)))

\* base64.StdEncoding.DecodeString: [err, data].  Input is consumed in quanta
\* of four characters; padding may only end the last quantum; any character
\* outside the alphabet, or a length that is no multiple of four, is a
\* CorruptInputError.  (The decoder skips \r and \n; the strings used here
\* hold neither.)
RECURSIVE B64Decode(_)
B64Decode(s) ==
    IF Len(s) = 0 THEN [err |-> FALSE, data |-> <<>>]
    ELSE IF Len(s) < 4 THEN [err |-> TRUE, data |-> <<>>]
    ELSE IF \A i \in 1..4 : s[i] \in B64Set THEN
        LET v == [i \in 1..4 |-> B64Val(s[i])]
            rest == B64Decode(SubSeq(s, 5, Len(s)))
        IN  [err |-> rest.err,
             data |-> IF rest.err THEN <<>>
                      ELSE <<v[1] * 4 + v[2] \div 16,
                             (v[2] % 16) * 16 + v[3] \div 4,
                             (v[3] % 4) * 64 + v[4]>> \o rest.data]
    ELSE IF Len(s) = 4 /\ s[1] \in B64Set /\ s[2] \in B64Set
            /\ s[3] = "=" /\ s[4] = "=" THEN
        [err |-> FALSE,
         data |-> <<B64Val(s[1]) * 4 + B64Val(s[2]) \div 16>>]
    ELSE IF Len(s) = 4 /\ s[1] \in B64Set /\ s[2] \in B64Set
            /\ s[3] \in B64Set /\ s[4] = "=" THEN
        [err |-> FALSE,
         data |-> <<B64Val(s[1]) * 4 + B64Val(s[2]) \div 16,
                    (B64Val(s[2]) % 16) * 16 + B64Val(s[3]) \div 4>>]
    ELSE [err |-> TRUE, data |-> <<>>]

(***************************************************************************)
(* image/png, reduced: a PNG is the 8-byte signature, a width byte and a   *)
(* height byte; an image.Image is its bounds.                              *)
(***************************************************************************)
PNGSignature == <<137, 80, 78, 71, 13, 10, 26, 10>>

\* the nil image.Image
NilImage == [w |-> 0, h |-> 0]

\* png.Encode into a fresh buffer: the bytes written
PNGEncode(img) == PNGSignature \o <<img.w, img.h>>

\* png.Decode: [err, img]
PNGDecode(b) ==
    IF /\ Len(b) = Len(PNGSignature) + 2
       /\ SubSeq(b, 1, Len(PNGSignature)) = PNGSignature
       /\ b[Len(b) - 1] > 0
       /\ b[Len(b)] > 0
    THEN [err |-> FALSE, img |-> [w |-> b[Len(b) - 1], h |-> b[Len(b)]]]
    ELSE [err |-> TRUE, img |-> NilImage]

DataURLPrefix == <<"d", "a", "t", "a", ":", "i", "m", "a", "g", "e", "/", "p", "n", "g", ";", "b", "a", "s", "e", "6", "4", ",">>

Img2RawBase64(img) == B64Encode(PNGEncode(img))

Img2Base64(img) == DataURLPrefix \o B64Encode(PNGEncode(img))

ImgBytes2Base64(data) == DataURLPrefix \o B64Encode(data)

(***************************************************************************)
(* encoding/json.  A JSON text is a string; a parsed value is a record     *)
(* [t, s, items]: t is the kind ("str", "num", "arr", "obj", "null",       *)
(* "true", "false"), s the characters of a string or number, items the     *)
(* elements of an array or the [k, v] members of an object.  The grammar   *)
(* is JSON without insignificant whitespace, escapes, signs and fractions. *)
(***************************************************************************)
Quote == "\""

JStr(s) == [t |-> "str", s |-> s, items |-> <<>>]
JNum(s) == [t |-> "num", s |-> s, items |-> <<>>]
JLit(name) == [t |-> name, s |-> <<>>, items |-> <<>>]
JArr(items) == [t |-> "arr", s |-> <<>>, items |-> items]
JObj(members) == [t |-> "obj", s |-> <<>>, items |-> members]

ParseFail == [ok |-> FALSE, v |-> JLit("null"), rest |-> <<>>]

HasPrefix(s, p) == Len(s) >= Len(p) /\ SubSeq(s, 1, Len(p)) = p

DigitSet == {Digits[i] : i \in 1..10}

\* length of the longest prefix of s made of digits
RECURSIVE DigitRun(_)
DigitRun(s) ==
    IF Len(s) > 0 /\ s[1] \in DigitSet THEN 1 + DigitRun(Tail(s)) ELSE 0

RECURSIVE ParseValue(_), ParseElems(_, _), ParseMembers(_, _)
\* one JSON value at the head of s: [ok, v, rest]
ParseValue(s) ==
    IF Len(s) = 0 THEN ParseFail
    ELSE IF s[1] = Quote THEN
        LET j == IndexOf(Tail(s), Quote)
        IN  IF j = 0 THEN ParseFail
            ELSE [ok |-> TRUE, v |-> JStr(SubSeq(s, 2, j)),
                  rest |-> SubSeq(s, j + 2, Len(s))]
    ELSE IF s[1] = "[" THEN
        IF Len(s) >= 2 /\ s[2] = "]"
        THEN [ok |-> TRUE, v |-> JArr(<<>>), rest |-> SubSeq(s, 3, Len(s))]
        ELSE ParseElems(Tail(s), <<>>)
    ELSE IF s[1] = "{" THEN
        IF Len(s) >= 2 /\ s[2] = "}"
        THEN [ok |-> TRUE, v |-> JObj(<<>>), rest |-> SubSeq(s, 3, Len(s))]
        ELSE ParseMembers(Tail(s), <<>>)
    ELSE IF s[1] \in DigitSet THEN
        LET n == IF s[1] = "0" THEN 1 ELSE DigitRun(s)
        IN  [ok |-> TRUE, v |-> JNum(SubSeq(s, 1, n)),
             rest |-> SubSeq(s, n + 1, Len(s))]
    ELSE IF HasPrefix(s, <<"n", "u", "l", "l">>) THEN
        [ok |-> TRUE, v |-> JLit("null"), rest |-> SubSeq(s, 5, Len(s))]
    ELSE IF HasPrefix(s, <<"t", "r", "u", "e">>) THEN
        [ok |-> TRUE, v |-> JLit("true"), rest |-> SubSeq(s, 5, Len(s))]
    ELSE IF HasPrefix(s, <<"f", "a", "l", "s", "e">>) THEN
        [ok |-> TRUE, v |-> JLit("false"), rest |-> SubSeq(s, 6, Len(s))]
    ELSE ParseFail

\* the elements of an array after "[" or ",", up to and including "]"
ParseElems(s, acc) ==
    LET r == ParseValue(s)
    IN  IF ~r.ok \/ Len(r.rest) = 0 THEN ParseFail
        ELSE IF r.rest[1] = "," THEN ParseElems(Tail(r.rest), Append(acc, r.v))
        ELSE IF r.rest[1] = "]" THEN
            [ok |-> TRUE, v |-> JArr(Append(acc, r.v)), rest |-> Tail(r.rest)]
        ELSE ParseFail

\* the members of an object after "{" or ",", up to and including "}"
ParseMembers(s, acc) ==
    LET k == ParseValue(s)
    IN  IF ~k.ok \/ k.v.t # "str" \/ Len(k.rest) = 0 \/ k.rest[1] # ":"
        THEN ParseFail
        ELSE LET r == ParseValue(Tail(k.rest))
                 m == [k |-> k.v.s, v |-> r.v]
             IN  IF ~r.ok \/ Len(r.rest) = 0 THEN ParseFail
                 ELSE IF r.rest[1] = "," THEN
                     ParseMembers(Tail(r.rest), Append(acc, m))
                 ELSE IF r.rest[1] = "}" THEN
                     [ok |-> TRUE, v |-> JObj(Append(acc, m)),
                      rest |-> Tail(r.rest)]
                 ELSE ParseFail

\* the scan stopping after the first value, whatever follows it
ParseJSONPrefix(data) ==
    LET r == ParseValue(data)
    IN  IF r.ok THEN r ELSE ParseFail

\* json.Valid followed by the scan: the whole text is one value
ParseJSON(data) ==
    LET r == ParseValue(data)
    IN  IF r.ok /\ Len(r.rest) = 0 THEN r ELSE ParseFail

\* the Go types json.Unmarshal decodes into, as far as their JSON shape goes
TString == [kind |-> "string"]
TNumber == [kind |-> "number"]
TBool == [kind |-> "bool"]
TSlice(elem) == [kind |-> "slice", elem |-> elem]
TStruct(fields) == [kind |-> "struct", fields |-> fields]
Field(key, type) == [key |-> key, type |-> type]

\* whether json.Unmarshal stores v into a Go value of the type without an
\* UnmarshalTypeError: null is a no-op for every type, unknown keys of an
\* object are skipped
RECURSIVE Assignable(_, _)
Assignable(v, type) ==
    IF v.t = "null" THEN TRUE
    ELSE IF type.kind = "string" THEN v.t = "str"
    ELSE IF type.kind = "number" THEN v.t = "num"
    ELSE IF type.kind = "bool" THEN v.t \in {"true", "false"}
    ELSE IF type.kind = "slice" THEN
        /\ v.t = "arr"
        /\ \A i \in 1..Len(v.items) : Assignable(v.items[i], type.elem)
    ELSE
        /\ v.t = "obj"
        /\ \A i \in 1..Len(v.items) : \A j \in 1..Len(type.fields) :
               v.items[i].k = type.fields[j].key
                   => Assignable(v.items[i].v, type.fields[j].type)

\* json.Unmarshal(data, result): [err, v].  err is a SyntaxError or an
\* UnmarshalTypeError; v is the parsed value the fields are filled from.
Unmarshal(data, type) ==
    LET p == ParseJSON(data)
    IN  IF ~p.ok THEN [err |-> TRUE, v |-> JLit("null")]
        ELSE IF ~Assignable(p.v, type) THEN [err |-> TRUE, v |-> JLit("null")]
        ELSE [err |-> FALSE, v |-> p.v]

\* the members of object v with the key whose value has kind t; a later
\* member overwrites an earlier one and null leaves the field alone
Hits(v, key, t) ==
    {i \in 1..Len(v.items) : v.items[i].k = key /\ v.items[i].v.t = t}

Last(S) == CHOOSE i \in S : \A j \in S : j <= i

\* a string field after decoding; "" when the key is absent
StringField(v, key) ==
    IF v.t # "obj" \/ Hits(v, key, "str") = {} THEN <<>>
    ELSE v.items[Last(Hits(v, key, "str"))].v.s

\* a number field after decoding, kept as its digits; "0" when absent
NumberField(v, key) ==
    IF v.t # "obj" \/ Hits(v, key, "num") = {} THEN <<"0">>
    ELSE v.items[Last(Hits(v, key, "num"))].v.s

\* a []string field after decoding; nil (empty) when the key is absent
StringsField(v, key) ==
    IF v.t # "obj" \/ Hits(v, key, "arr") = {} THEN <<>>
    ELSE LET a == v.items[Last(Hits(v, key, "arr"))].v.items
         IN  [i \in 1..Len(a) |-> IF a[i].t = "str" THEN a[i].s ELSE <<>>]

\* a nested struct field after decoding: the object, or null when absent
StructField(v, key) ==
    IF v.t # "obj" \/ Hits(v, key, "obj") = {} THEN JLit("null")
    ELSE v.items[Last(Hits(v, key, "obj"))].v

(***************************************************************************)
(* json.Encoder.Encode of an option struct.  A struct value is the         *)
(* sequence of its fields in declaration order; every field of the option  *)
(* structs carries omitempty.  float32 values are whole numbers or NaN.    *)
(***************************************************************************)
FString(key, s) ==
    [key |-> key, kind |-> "string", s |-> s, n |-> 0, b |-> FALSE,
     nan |-> FALSE, list |-> <<>>]
FInt(key, n) ==
    [key |-> key, kind |-> "int", s |-> <<>>, n |-> n, b |-> FALSE,
     nan |-> FALSE, list |-> <<>>]
FFloat(key, nan, n) ==
    [key |-> key, kind |-> "float", s |-> <<>>, n |-> n, b |-> FALSE,
     nan |-> nan, list |-> <<>>]
FBool(key, b) ==
    [key |-> key, kind |-> "bool", s |-> <<>>, n |-> 0, b |-> b,
     nan |-> FALSE, list |-> <<>>]
FStrings(key, list) ==
    [key |-> key, kind |-> "strings", s |-> <<>>, n |-> 0, b |-> FALSE,
     nan |-> FALSE, list |-> list]

\* fields declared without omitempty
IsEmptyValueNever(f) == FALSE

\* omitempty's test: false, 0, "" and an empty slice are empty; NaN is not
IsEmptyValue(f) ==
    IF f.kind = "string" THEN Len(f.s) = 0
    ELSE IF f.kind = "int" THEN f.n = 0
    ELSE IF f.kind = "float" THEN ~f.nan /\ f.n = 0
    ELSE IF f.kind = "bool" THEN ~f.b
    ELSE Len(f.list) = 0

JSONString(s) == <<Quote>> \o s \o <<Quote>>

RECURSIVE JoinComma(_)
JoinComma(parts) ==
    IF Len(parts) = 0 THEN <<>>
    ELSE IF Len(parts) = 1 THEN parts[1]
    ELSE parts[1] \o <<",">> \o JoinComma(Tail(parts))

JSONStrings(list) ==
    <<"[">> \o JoinComma([i \in 1..Len(list) |-> JSONString(list[i])]) \o <<"]">>

EncodeValue(f) ==
    IF f.kind = "string" THEN JSONString(f.s)
    ELSE IF f.kind = "int" \/ f.kind = "float" THEN Itoa(f.n)
    ELSE IF f.kind = "bool" THEN FormatBool(f.b)
    ELSE JSONStrings(f.list)

\* the fields omitempty keeps
RECURSIVE Kept(_)
Kept(fields) ==
    IF Len(fields) = 0 THEN <<>>
    ELSE IF IsEmptyValue(fields[1]) THEN Kept(Tail(fields))
    ELSE <<fields[1]>> \o Kept(Tail(fields))

\* json.NewEncoder(buf).Encode(body): [err, text].  A NaN float is an
\* UnsupportedValueError; the encoder ends the text with a newline.
EncodeJSON(fields) ==
    LET kept == Kept(fields)
    IN  IF \E i \in 1..Len(kept) : kept[i].nan
        THEN [err |-> TRUE, text |-> <<>>]
        ELSE [err |-> FALSE,
              text |-> <<"{">>
                       \o JoinComma([i \in 1..Len(kept) |->
                              JSONString(kept[i].key) \o <<":">>
                              \o EncodeValue(kept[i])])
                       \o <<"}", "\n">>]

(***************************************************************************)
(* The client.                                                             *)
(***************************************************************************)
DefaultBaseURL == <<"h", "t", "t", "p", ":", "/", "/", "1", "2", "7", ".", "0", ".", "0", ".", "1", ":", "7", "8", "6", "0">>

\* NewClient keeping an empty base URL
NewClientNoDefault(baseURL, username, password, httpCli) ==
    [cli |-> httpCli, baseURL |-> baseURL, username |-> <<>>,
     password |-> <<>>]

\* NewClient: the struct literal sets cli and baseURL; username and password
\* keep their zero value
NewClient(baseURL, username, password, httpCli) ==
    [cli |-> httpCli,
     baseURL |-> IF Len(baseURL) = 0 THEN DefaultBaseURL ELSE baseURL,
     username |-> <<>>,
     password |-> <<>>]

\* no *http.Response
NoResponse ==
    [present |-> FALSE, StatusCode |-> 0, Body |-> <<>>, readErr |-> FALSE]

\* the nil error inside an *Error, and a non-nil one with its text
NilCause == [nil |-> TRUE, text |-> <<>>]
Cause(text) == [nil |-> FALSE, text |-> text]

\* the nil *Error
NilError ==
    [nil |-> TRUE, Err |-> NilCause, Msg |-> <<>>, Response |-> NoResponse]

\* wrapError losing the cause it is given
wrapErrorNoCause(err, resp, msg) ==
    [nil |-> FALSE, Err |-> NilCause, Msg |-> msg, Response |-> resp]

\* wrapError, msg being fmt.Sprintf(format, args...)
wrapError(err, resp, msg) ==
    [nil |-> FALSE, Err |-> err, Msg |-> msg, Response |-> resp]

\* (*Error).Error: "%s: %+v" of Msg and Err
ErrorString(e) ==
    IF e.nil THEN <<>>
    ELSE e.Msg \o <<":", " ">> \o (IF e.Err.nil THEN <<"<", "n", "i", "l", ">">> ELSE e.Err.text)

\* (*Error).Unwrap
Unwrap(e) == e.Err

MsgEncode == <<"f", "a", "i", "l", "e", "d", " ", "t", "o", " ", "e", "n", "c", "o", "d", "e", " ", "b", "o", "d", "y">>
MsgInit == <<"f", "a", "i", "l", "e", "d", " ", "t", "o", " ", "i", "n", "i", "t", "i", "a", "l", "i", "z", "e", " ", "r", "e", "q", "u", "e", "s", "t">>
MsgDo == <<"f", "a", "i", "l", "e", "d", " ", "t", "o", " ", "d", "o", " ", "r", "e", "q", "u", "e", "s", "t">>
MsgRead == <<"f", "a", "i", "l", "e", "d", " ", "t", "o", " ", "r", "e", "a", "d", " ", "r", "e", "s", "p", "o", "n", "s", "e", " ", "b", "o", "d", "y">>
MsgParse == <<"f", "a", "i", "l", "e", "d", " ", "t", "o", " ", "p", "a", "r", "s", "e", " ", "r", "e", "s", "p", "o", "n", "s", "e">>

\* the status message without the body text
MsgStatusNoBody(code, data) == <<"g", "o", "t", " ", "b", "a", "d", " ", "s", "t", "a", "t", "u", "s", " ">> \o Itoa(code)

\* fmt.Sprintf("got bad status %d, body: %s", resp.StatusCode, string(data))
MsgStatus(code, data) ==
    <<"g", "o", "t", " ", "b", "a", "d", " ", "s", "t", "a", "t", "u", "s", " ">> \o Itoa(code) \o <<",", " ", "b", "o", "d", "y", ":", " ">> \o data

\* the causes the standard library reports
ErrUnsupportedValue == Cause(<<"j", "s", "o", "n", ":", " ", "u", "n", "s", "u", "p", "p", "o", "r", "t", "e", "d", " ", "v", "a", "l", "u", "e", ":", " ", "N", "a", "N">>)
ErrMissingScheme == Cause(<<"m", "i", "s", "s", "i", "n", "g", " ", "p", "r", "o", "t", "o", "c", "o", "l", " ", "s", "c", "h", "e", "m", "e">>)
ErrTransport == Cause(<<"c", "o", "n", "n", "e", "c", "t", "i", "o", "n", " ", "r", "e", "f", "u", "s", "e", "d">>)
ErrUnexpectedEOF == Cause(<<"u", "n", "e", "x", "p", "e", "c", "t", "e", "d", " ", "E", "O", "F">>)
ErrContextCanceled == Cause(<<"c", "o", "n", "t", "e", "x", "t", " ", "c", "a", "n", "c", "e", "l", "e", "d">>)
ErrJSON == Cause(<<"j", "s", "o", "n", ":", " ", "c", "a", "n", "n", "o", "t", " ", "d", "e", "c", "o", "d", "e">>)

StatusOK == 200

\* fmt.Sprintf("%s/sdapi/v1%s", c.baseURL, path)
RequestURL(baseURL, path) == baseURL \o <<"/", "s", "d", "a", "p", "i", "/", "v", "1">> \o path

\* whether http.NewRequestWithContext parses the URL: url.Parse reports
\* "missing protocol scheme" for a string that starts with a colon
URLValid(url) == Len(url) > 0 /\ url[1] # ":"

NoAuth == [set |-> FALSE, username |-> <<>>, password |-> <<>>]

NoRequest ==
    [present |-> FALSE, method |-> "", url |-> <<>>, hasBody |-> FALSE,
     body |-> <<>>, contentType |-> "", auth |-> NoAuth]

\* the request doReq hands to the transport: built by NewRequestWithContext,
\* then given the content type and, when both are set, the credentials
BuildRequest(c, method, path, hasBody, buf) ==
    [present |-> TRUE,
     method |-> method,
     url |-> RequestURL(c.baseURL, path),
     hasBody |-> hasBody,
     body |-> buf,
     contentType |-> "application/json",
     auth |-> IF Len(c.username) # 0 /\ Len(c.password) # 0
              THEN [set |-> TRUE, username |-> c.username,
                    password |-> c.password]
              ELSE NoAuth]

(***************************************************************************)
(* Request and response types.  Of each struct the model keeps the fields  *)
(* named here; the other fields of the source behave like the one of the   *)
(* same Go type that is kept.                                              *)
(***************************************************************************)
Txt2ImageOption(prompt, steps, cfgScale) ==
    <<FString(<<"p", "r", "o", "m", "p", "t">>, prompt), FInt(<<"s", "t", "e", "p", "s">>, steps),
      FFloat(<<"c", "f", "g", "_", "s", "c", "a", "l", "e">>, cfgScale.nan, cfgScale.n)>>

Img2ImgOption(initImages, denoisingStrength, prompt) ==
    <<FStrings(<<"i", "n", "i", "t", "_", "i", "m", "a", "g", "e", "s">>, initImages),
      FFloat(<<"d", "e", "n", "o", "i", "s", "i", "n", "g", "_", "s", "t", "r", "e", "n", "g", "t", "h">>, denoisingStrength.nan, denoisingStrength.n),
      FString(<<"p", "r", "o", "m", "p", "t">>, prompt)>>

ExtraSingleImgOption(resizeMode, upscalingCrop, image) ==
    <<FInt(<<"r", "e", "s", "i", "z", "e", "_", "m", "o", "d", "e">>, resizeMode), FBool(<<"u", "p", "s", "c", "a", "l", "i", "n", "g", "_", "c", "r", "o", "p">>, upscalingCrop),
      FString(<<"i", "m", "a", "g", "e">>, image)>>

Txt2ImageResponse ==
    TStruct(<<Field(<<"i", "m", "a", "g", "e", "s">>, TSlice(TString)),
              Field(<<"p", "a", "r", "a", "m", "e", "t", "e", "r", "s">>,
                    TStruct(<<Field(<<"p", "r", "o", "m", "p", "t">>, TString),
                              Field(<<"s", "t", "e", "p", "s">>, TNumber)>>)),
              Field(<<"i", "n", "f", "o">>, TString)>>)

Img2ImgResponse ==
    TStruct(<<Field(<<"i", "m", "a", "g", "e", "s">>, TSlice(TString)),
              Field(<<"p", "a", "r", "a", "m", "e", "t", "e", "r", "s">>,
                    TStruct(<<Field(<<"p", "r", "o", "m", "p", "t">>, TString),
                              Field(<<"s", "t", "e", "p", "s">>, TNumber)>>)),
              Field(<<"i", "n", "f", "o">>, TString)>>)

ExtraSingleImgResponse ==
    TStruct(<<Field(<<"h", "t", "m", "l", "_", "i", "n", "f", "o">>, TString), Field(<<"i", "m", "a", "g", "e">>, TString)>>)

ProgressResponse ==
    TStruct(<<Field(<<"p", "r", "o", "g", "r", "e", "s", "s">>, TNumber),
              Field(<<"s", "t", "a", "t", "e">>, TStruct(<<Field(<<"j", "o", "b">>, TString),
                                         Field(<<"j", "o", "b", "_", "c", "o", "u", "n", "t">>, TNumber)>>)),
              Field(<<"c", "u", "r", "r", "e", "n", "t", "_", "i", "m", "a", "g", "e">>, TString),
              Field(<<"t", "e", "x", "t", "i", "n", "f", "o">>, TString)>>)

OptionsResponse ==
    TStruct(<<Field(<<"s", "d", "_", "m", "o", "d", "e", "l", "_", "c", "h", "e", "c", "k", "p", "o", "i", "n", "t">>, TString),
              Field(<<"s", "a", "m", "p", "l", "e", "s", "_", "s", "a", "v", "e">>, TBool)>>)

ModelsResponse ==
    TStruct(<<Field(<<"t", "i", "t", "l", "e">>, TString), Field(<<"m", "o", "d", "e", "l", "_", "n", "a", "m", "e">>, TString)>>)

MemoryResponse ==
    TStruct(<<Field(<<"r", "a", "m">>, TStruct(<<Field(<<"f", "r", "e", "e">>, TNumber),
                                       Field(<<"t", "o", "t", "a", "l">>, TNumber)>>)),
              Field(<<"c", "u", "d", "a">>, TStruct(<<>>))>>)

\* the nil result an operation returns beside an error
NilResult == [nil |-> TRUE, type |-> "nil"]

\* the struct json.Unmarshal leaves behind the result pointer, filled from
\* the parsed value v: a key that is absent or null leaves the zero value
NewResult(type, v) ==
    IF type = "Txt2ImageResponse" \/ type = "Img2ImgResponse" THEN
        [nil |-> FALSE, type |-> type,
         Images |-> StringsField(v, <<"i", "m", "a", "g", "e", "s">>),
         Info |-> StringField(v, <<"i", "n", "f", "o">>),
         ParsedImages |-> <<>>, RawImages |-> <<>>]
    ELSE IF type = "ExtraSingleImgResponse" THEN
        [nil |-> FALSE, type |-> type,
         HTMLInfo |-> StringField(v, <<"h", "t", "m", "l", "_", "i", "n", "f", "o">>),
         Image |-> StringField(v, <<"i", "m", "a", "g", "e">>),
         ParsedImage |-> NilImage, RawImage |-> <<>>]
    ELSE IF type = "ProgressResponse" THEN
        [nil |-> FALSE, type |-> type,
         Progress |-> NumberField(v, <<"p", "r", "o", "g", "r", "e", "s", "s">>),
         Job |-> StringField(StructField(v, <<"s", "t", "a", "t", "e">>), <<"j", "o", "b">>),
         CurrentImage |-> StringField(v, <<"c", "u", "r", "r", "e", "n", "t", "_", "i", "m", "a", "g", "e">>),
         TextInfo |-> StringField(v, <<"t", "e", "x", "t", "i", "n", "f", "o">>)]
    ELSE IF type = "OptionsResponse" THEN
        [nil |-> FALSE, type |-> type,
         SdModelCheckpoint |-> StringField(v, <<"s", "d", "_", "m", "o", "d", "e", "l", "_", "c", "h", "e", "c", "k", "p", "o", "i", "n", "t">>)]
    ELSE IF type = "[]*ModelsResponse" THEN
        \* a slice: JSON null makes it nil, a null element is a nil pointer
        [nil |-> v.t # "arr", type |-> type,
         list |-> [i \in 1..Len(v.items) |->
                      [nil |-> v.items[i].t # "obj",
                       Title |-> StringField(v.items[i], <<"t", "i", "t", "l", "e">>)]]]
    ELSE
        [nil |-> FALSE, type |-> type,
         RAMFree |-> NumberField(StructField(v, <<"r", "a", "m">>), <<"f", "r", "e", "e">>)]

\* the JSON shape of each result type
ResultType(type) ==
    IF type = "Txt2ImageResponse" THEN Txt2ImageResponse
    ELSE IF type = "Img2ImgResponse" THEN Img2ImgResponse
    ELSE IF type = "ExtraSingleImgResponse" THEN ExtraSingleImgResponse
    ELSE IF type = "ProgressResponse" THEN ProgressResponse
    ELSE IF type = "OptionsResponse" THEN OptionsResponse
    ELSE IF type = "[]*ModelsResponse" THEN TSlice(ModelsResponse)
    ELSE MemoryResponse

(***************************************************************************)
(* The endpoint operations.  <Op>Args is the doReq call an operation       *)
(* makes, <Op>(err, res) what it returns once doReq has returned err and   *)
(* left res behind the result pointer.                                     *)
(***************************************************************************)
DoReqArgs(path, method, hasBody, body, expectedStatus, result) ==
    [path |-> path, method |-> method, hasBody |-> hasBody, body |-> body,
     expectedStatus |-> expectedStatus, result |-> result]

Txt2ImgArgs(opt) ==
    DoReqArgs(<<"/", "t", "x", "t", "2", "i", "m", "g">>, "POST", TRUE, opt, StatusOK, "Txt2ImageResponse")

\* the loop appending the image png.Decode returned also when it failed
RECURSIVE Txt2ImgLoopAppendNil(_, _, _)
Txt2ImgLoopAppendNil(images, imgs, raws) ==
    IF Len(images) = 0 THEN [imgs |-> imgs, raws |-> raws]
    ELSE LET raw == SplitN(images[1], ",", 1)[1]
             dec == B64Decode(raw)
             img == PNGDecode(dec.data)
         IN  IF dec.err THEN Txt2ImgLoopAppendNil(Tail(images), imgs, raws)
             ELSE Txt2ImgLoopAppendNil(Tail(images), Append(imgs, img.img),
                                       Append(raws, dec.data))

\* the loop over res.Images of Txt2Img: [imgs, raws]
RECURSIVE Txt2ImgLoop(_, _, _)
Txt2ImgLoop(images, imgs, raws) ==
    IF Len(images) = 0 THEN [imgs |-> imgs, raws |-> raws]
    ELSE LET raw == SplitN(images[1], ",", 1)[1]
             dec == B64Decode(raw)
             img == PNGDecode(dec.data)
         IN  IF dec.err THEN Txt2ImgLoop(Tail(images), imgs, raws)
             ELSE IF img.err
             THEN Txt2ImgLoop(Tail(images), imgs, Append(raws, dec.data))
             ELSE Txt2ImgLoop(Tail(images), Append(imgs, img.img),
                              Append(raws, dec.data))

\* ExtraSingleImg decoding the part of the image string before its first
\* comma
ExtraSingleImgSplit2(err, res) ==
    IF ~err.nil THEN [res |-> NilResult, err |-> err]
    ELSE LET raw == SplitN(res.Image, ",", 2)[1]
             dec == B64Decode(raw)
             img == PNGDecode(dec.data)
         IN  [res |-> IF dec.err THEN res
                      ELSE IF img.err THEN [res EXCEPT !.RawImage = dec.data]
                      ELSE [res EXCEPT !.RawImage = dec.data,
                                       !.ParsedImage = img.img],
              err |-> NilError]

\* Txt2Img failing the call when an image string does not decode
Txt2ImgStrict(err, res) ==
    IF ~err.nil THEN [res |-> NilResult, err |-> err]
    ELSE LET out == Txt2ImgLoop(res.Images, <<>>, <<>>)
         IN  IF Len(out.imgs) # Len(res.Images)
             THEN [res |-> NilResult,
                   err |-> wrapError(ErrJSON, NoResponse, MsgParse)]
             ELSE [res |-> [res EXCEPT !.ParsedImages = out.imgs,
                                       !.RawImages = out.raws],
                   err |-> NilError]

Txt2Img(err, res) ==
    IF ~err.nil THEN [res |-> NilResult, err |-> err]
    ELSE LET out == Txt2ImgLoop(res.Images, <<>>, <<>>)
         IN  [res |-> [res EXCEPT !.ParsedImages = out.imgs,
                                  !.RawImages = out.raws],
              err |-> NilError]

Img2ImgArgs(opt) ==
    DoReqArgs(<<"/", "i", "m", "g", "2", "i", "m", "g">>, "POST", TRUE, opt, StatusOK, "Img2ImgResponse")

\* the loop keeping the raw bytes only of the entries that are PNGs
RECURSIVE Img2ImgLoopRawAfterPNG(_, _, _)
Img2ImgLoopRawAfterPNG(images, imgs, raws) ==
    IF Len(images) = 0 THEN [imgs |-> imgs, raws |-> raws]
    ELSE LET raw == SplitN(images[1], ",", 1)[1]
             dec == B64Decode(raw)
             img == PNGDecode(dec.data)
         IN  IF dec.err \/ img.err
             THEN Img2ImgLoopRawAfterPNG(Tail(images), imgs, raws)
             ELSE Img2ImgLoopRawAfterPNG(Tail(images), Append(imgs, img.img),
                                         Append(raws, dec.data))

\* the loop over res.Images of Img2Img: [imgs, raws]
RECURSIVE Img2ImgLoop(_, _, _)
Img2ImgLoop(images, imgs, raws) ==
    IF Len(images) = 0 THEN [imgs |-> imgs, raws |-> raws]
    ELSE LET raw == SplitN(images[1], ",", 1)[1]
             dec == B64Decode(raw)
             img == PNGDecode(dec.data)
         IN  IF dec.err THEN Img2ImgLoop(Tail(images), imgs, raws)
             ELSE IF img.err
             THEN Img2ImgLoop(Tail(images), imgs, Append(raws, dec.data))
             ELSE Img2ImgLoop(Tail(images), Append(imgs, img.img),
                              Append(raws, dec.data))

Img2Img(err, res) ==
    IF ~err.nil THEN [res |-> NilResult, err |-> err]
    ELSE LET out == Img2ImgLoop(res.Images, <<>>, <<>>)
         IN  [res |-> [res EXCEPT !.ParsedImages = out.imgs,
                                  !.RawImages = out.raws],
              err |-> NilError]

ExtraSingleImgArgs(opt) ==
    DoReqArgs(<<"/", "e", "x", "t", "r", "a", "-", "s", "i", "n", "g", "l", "e", "-", "i", "m", "a", "g", "e">>, "POST", TRUE, opt, StatusOK,
              "ExtraSingleImgResponse")

ExtraSingleImg(err, res) ==
    IF ~err.nil THEN [res |-> NilResult, err |-> err]
    ELSE LET raw == SplitN(res.Image, ",", 1)[1]
             dec == B64Decode(raw)
             img == PNGDecode(dec.data)
         IN  [res |-> IF dec.err THEN res
                      ELSE IF img.err THEN [res EXCEPT !.RawImage = dec.data]
                      ELSE [res EXCEPT !.RawImage = dec.data,
                                       !.ParsedImage = img.img],
              err |-> NilError]

\* GetProgress without the query flag
GetProgressArgsNoFlag(skipCurrentImg) ==
    DoReqArgs(<<"/", "p", "r", "o", "g", "r", "e", "s", "s">>, "GET", FALSE, <<>>, StatusOK, "ProgressResponse")

GetProgressArgs(skipCurrentImg) ==
    DoReqArgs(<<"/", "p", "r", "o", "g", "r", "e", "s", "s", "?", "s", "k", "i", "p", "_", "c", "u", "r", "r", "e", "n", "t", "_", "i", "m", "a", "g", "e", "=">> \o FormatBool(skipCurrentImg),
              "GET", FALSE, <<>>, StatusOK, "ProgressResponse")

GetProgress(err, res) ==
    IF ~err.nil THEN [res |-> NilResult, err |-> err]
    ELSE [res |-> res, err |-> NilError]

GetOptionsArgs ==
    DoReqArgs(<<"/", "o", "p", "t", "i", "o", "n", "s">>, "GET", FALSE, <<>>, StatusOK, "OptionsResponse")

GetOptions(err, res) ==
    IF ~err.nil THEN [res |-> NilResult, err |-> err]
    ELSE [res |-> res, err |-> NilError]

GetModelsArgs ==
    DoReqArgs(<<"/", "s", "d", "-", "m", "o", "d", "e", "l", "s">>, "GET", FALSE, <<>>, StatusOK, "[]*ModelsResponse")

GetModels(err, res) ==
    IF ~err.nil THEN [res |-> NilResult, err |-> err]
    ELSE [res |-> res, err |-> NilError]

GetMemoryArgs ==
    DoReqArgs(<<"/", "m", "e", "m", "o", "r", "y">>, "GET", FALSE, <<>>, StatusOK, "MemoryResponse")

\* GetMemory returning the response it allocated along with the error
GetMemoryWithResult(err, res) ==
    IF ~err.nil
    THEN [res |-> [nil |-> FALSE, type |-> "MemoryResponse", RAMFree |-> 0],
          err |-> err]
    ELSE [res |-> res, err |-> NilError]

GetMemory(err, res) ==
    IF ~err.nil THEN [res |-> NilResult, err |-> err]
    ELSE [res |-> res, err |-> NilError]

Operations ==
    {"Txt2Img", "Img2Img", "ExtraSingleImg", "GetProgress", "GetOptions",
     "GetModels", "GetMemory"}

(***************************************************************************)
(* The earlier version of the package, src/unnamed/part_000: NewClient     *)
(* takes no credentials and keeps the base URL as given, doReq is the same *)
(* without the credentials, Txt2Img returns the list of images, Progress   *)
(* takes no flag; GetOptions, GetModels and GetMemory are as above.  What  *)
(* Txt2Img prints to standard output is left out.                          *)
(***************************************************************************)
Part000NewClient(baseURL, httpCli) ==
    [cli |-> httpCli, baseURL |-> baseURL, username |-> <<>>,
     password |-> <<>>]

Part000Txt2ImageOption(prompt, steps, cfgScale) ==
    <<FString(<<"p", "r", "o", "m", "p", "t">>, prompt), FInt(<<"s", "t", "e", "p", "s">>, steps),
      FInt(<<"c", "f", "g", "_", "s", "c", "a", "l", "e">>, cfgScale)>>

\* the loop over res.Images: an entry that is not base64 is skipped; the
\* image png.Decode returns is appended whether or not it failed
RECURSIVE Part000Txt2ImgLoop(_, _)
Part000Txt2ImgLoop(images, imgs) ==
    IF Len(images) = 0 THEN imgs
    ELSE LET raw == SplitN(images[1], ",", 1)[1]
             dec == B64Decode(raw)
             img == PNGDecode(dec.data)
         IN  IF dec.err THEN Part000Txt2ImgLoop(Tail(images), imgs)
             ELSE Part000Txt2ImgLoop(Tail(images), Append(imgs, img.img))

Part000Txt2Img(err, res) ==
    IF ~err.nil THEN [res |-> NilResult, err |-> err]
    ELSE [res |-> [nil |-> FALSE, type |-> "[]image.Image",
                   list |-> Part000Txt2ImgLoop(res.Images, <<>>)],
          err |-> NilError]

ProgressArgs ==
    DoReqArgs(<<"/", "p", "r", "o", "g", "r", "e", "s", "s">>, "GET", FALSE, <<>>, StatusOK, "ProgressResponse")

Progress(err, res) ==
    IF ~err.nil THEN [res |-> NilResult, err |-> err]
    ELSE [res |-> res, err |-> NilError]

\* the doReq call of an invocation [op, opt, skip]
ArgsOf(inv) ==
    IF inv.op = "Progress" THEN ProgressArgs ELSE
    IF inv.op = "Txt2Img" THEN Txt2ImgArgs(inv.opt)
    ELSE IF inv.op = "Img2Img" THEN Img2ImgArgs(inv.opt)
    ELSE IF inv.op = "ExtraSingleImg" THEN ExtraSingleImgArgs(inv.opt)
    ELSE IF inv.op = "GetProgress" THEN GetProgressArgs(inv.skip)
    ELSE IF inv.op = "GetOptions" THEN GetOptionsArgs
    ELSE IF inv.op = "GetModels" THEN GetModelsArgs
    ELSE GetMemoryArgs

\* what the operation returns after its doReq call
ReturnOf(op, err, res) ==
    IF op = "Txt2Img" THEN Txt2Img(err, res)
    ELSE IF op = "Img2Img" THEN Img2Img(err, res)
    ELSE IF op = "ExtraSingleImg" THEN ExtraSingleImg(err, res)
    ELSE IF op = "GetProgress" THEN GetProgress(err, res)
    ELSE IF op = "GetOptions" THEN GetOptions(err, res)
    ELSE IF op = "GetModels" THEN GetModels(err, res)
    ELSE GetMemory(err, res)

\* what the operation of the earlier version returns after its doReq call
Part000ReturnOf(op, err, res) ==
    IF op = "Txt2Img" THEN Part000Txt2Img(err, res)
    ELSE IF op = "Progress" THEN Progress(err, res)
    ELSE IF op = "GetOptions" THEN GetOptions(err, res)
    ELSE IF op = "GetModels" THEN GetModels(err, res)
    ELSE GetMemory(err, res)

(***************************************************************************)
(* The inputs: what callers pass and what the server answers.              *)
(***************************************************************************)
Image1 == [w |-> 1, h |-> 1]
Image2 == [w |-> 2, h |-> 1]

\* image strings a server may send: two bare base64 PNGs, a data URL of a
\* PNG, text that is not base64, base64 of bytes that are no PNG, and a
\* string whose part before the comma is base64 by itself
NotBase64 == <<"n", "o", "t", " ", "b", "a", "s", "e", "6", "4">>
NotPNG == <<"A", "A", "A", "A">>
CommaBase64 == <<"A", "A", "A", "A", ",", "A", "A", "A", "A">>

ImageStrings ==
    {Img2RawBase64(Image1), Img2RawBase64(Image2), Img2Base64(Image1),
     NotBase64, NotPNG, CommaBase64}

SeqsUpTo(S, n) == UNION {[1..k -> S] : k \in 0..n}

ImageLists == SeqsUpTo(ImageStrings, MaxImages)

InfoText == <<"x">>

ImagesBody(list, info) ==
    <<"{", "\"", "i", "m", "a", "g", "e", "s", "\"", ":">> \o JSONStrings(list) \o <<",", "\"", "i", "n", "f", "o", "\"", ":">> \o JSONString(info)
    \o <<"}">>

ExtraBody(image) ==
    <<"{", "\"", "h", "t", "m", "l", "_", "i", "n", "f", "o", "\"", ":", "\"", "<", "p", ">", "o", "k", "<", "/", "p", ">", "\"", ",", "\"", "i", "m", "a", "g", "e", "\"", ":">> \o JSONString(image) \o <<"}">>

ProgressBody ==
    <<"{", "\"", "p", "r", "o", "g", "r", "e", "s", "s", "\"", ":", "1", ",", "\"", "s", "t", "a", "t", "e", "\"", ":", "{", "\"", "j", "o", "b", "\"", ":", "\"", "j", "\"", ",", "\"", "j", "o", "b", "_", "c", "o", "u", "n", "t", "\"", ":", "2", "}", ",", "\"", "c", "u", "r", "r", "e", "n", "t", "_", "i", "m", "a", "g", "e", "\"", ":", "n", "u", "l", "l", ",", "\"", "t", "e", "x", "t", "i", "n", "f", "o", "\"", ":", "\"", "x", "\"", "}">>

OptionsBody == <<"{", "\"", "s", "d", "_", "m", "o", "d", "e", "l", "_", "c", "h", "e", "c", "k", "p", "o", "i", "n", "t", "\"", ":", "\"", "m", "\"", ",", "\"", "s", "a", "m", "p", "l", "e", "s", "_", "s", "a", "v", "e", "\"", ":", "t", "r", "u", "e", "}">>

ModelsBody == <<"[", "{", "\"", "t", "i", "t", "l", "e", "\"", ":", "\"", "m", "\"", ",", "\"", "m", "o", "d", "e", "l", "_", "n", "a", "m", "e", "\"", ":", "\"", "m", "\"", "}", ",", "n", "u", "l", "l", "]">>

MemoryBody == <<"{", "\"", "r", "a", "m", "\"", ":", "{", "\"", "f", "r", "e", "e", "\"", ":", "1", ",", "\"", "t", "o", "t", "a", "l", "\"", ":", "2", "}", ",", "\"", "c", "u", "d", "a", "\"", ":", "{", "}", "}">>

NullBody == <<"n", "u", "l", "l">>
EmptyArrayBody == <<"[", "]">>
EmptyObjectBody == <<"{", "}">>

\* texts that are not JSON
SyntaxBadBodies == {<<"b", "o", "o", "m">>, <<"{", "\"", "i", "m", "a", "g", "e", "s", "\"", ":", "[">>, <<"{", "\"", "i", "n", "f", "o", "\"", ":", "\"", "x", "\"", "}", "}">>}

\* JSON texts no result type accepts: a top-level string, and an object
\* whose members have the wrong kind for every struct
WrongKindBodies ==
    {<<"\"", "x", "\"">>,
     <<"{", "\"", "i", "m", "a", "g", "e", "s", "\"", ":", "\"", "x", "\"", ",", "\"", "i", "m", "a", "g", "e", "\"", ":", "1", ",", "\"", "t", "e", "x", "t", "i", "n", "f", "o", "\"", ":", "1", ",", "\"", "s", "d", "_", "m", "o", "d", "e", "l", "_", "c", "h", "e", "c", "k", "p", "o", "i", "n", "t", "\"", ":", "1", ",", "\"", "r", "a", "m", "\"", ":", "1", "}">>}

\* the bodies of the model that are not valid JSON for the result type of op
NotValidFor(op) ==
    SyntaxBadBodies \cup WrongKindBodies
    \cup (IF op = "GetModels" THEN {EmptyObjectBody, ProgressBody}
          ELSE {EmptyArrayBody, ModelsBody})

WellFormedBodies ==
    {ImagesBody(l, InfoText) : l \in ImageLists}
    \cup {ExtraBody(s) : s \in ImageStrings}
    \cup {ProgressBody, OptionsBody, ModelsBody, MemoryBody, NullBody,
          EmptyArrayBody, EmptyObjectBody}

Bodies == WellFormedBodies \cup SyntaxBadBodies \cup WrongKindBodies

Response(status, body, readErr) ==
    [present |-> TRUE, StatusCode |-> status, Body |-> body,
     readErr |-> readErr]

BadStatuses == {201, 404, 500}

\* what the transport may hand back: any body with status 200, a few bodies
\* with another status, and responses whose body cannot be read to the end
Responses ==
    {Response(StatusOK, b, FALSE) : b \in Bodies}
    \cup {Response(s, b, FALSE) :
              s \in BadStatuses,
              b \in {<<"b", "o", "o", "m">>, <<>>, ImagesBody(<<Img2RawBase64(Image1)>>, InfoText)}}
    \cup {Response(s, <<"b", "o", "o", "m">>, TRUE) : s \in {StatusOK, 500}}

NaN == [nan |-> TRUE, n |-> 0]
Float(n) == [nan |-> FALSE, n |-> n]

Txt2ImageOptions ==
    {Txt2ImageOption(<<>>, 0, Float(0)),
     Txt2ImageOption(<<"c", "a", "t">>, 20, Float(7)),
     Txt2ImageOption(<<"c", "a", "t">>, 0, NaN)}

Img2ImgOptions ==
    {Img2ImgOption(<<>>, Float(0), <<>>),
     Img2ImgOption(<<Img2Base64(Image1)>>, Float(1), <<"c", "a", "t">>),
     Img2ImgOption(<<>>, NaN, <<>>)}

ExtraSingleImgOptions ==
    {ExtraSingleImgOption(0, FALSE, <<>>),
     ExtraSingleImgOption(1, TRUE, Img2Base64(Image2))}

Invocation(op, opt, skip) == [op |-> op, opt |-> opt, skip |-> skip]

NoInvocation == Invocation("none", <<>>, FALSE)

Invocations ==
    {Invocation("Txt2Img", o, FALSE) : o \in Txt2ImageOptions}
    \cup {Invocation("Img2Img", o, FALSE) : o \in Img2ImgOptions}
    \cup {Invocation("ExtraSingleImg", o, FALSE) : o \in ExtraSingleImgOptions}
    \cup {Invocation("GetProgress", <<>>, s) : s \in BOOLEAN}
    \cup {Invocation(op, <<>>, FALSE) :
              op \in {"GetOptions", "GetModels", "GetMemory"}}

\* the calls of the earlier version
Part000Invocations ==
    {Invocation("Txt2Img", o, FALSE) :
         o \in {Part000Txt2ImageOption(<<>>, 0, 0),
                Part000Txt2ImageOption(<<"c", "a", "t">>, 20, 7)}}
    \cup {Invocation(op, <<>>, FALSE) :
              op \in {"Progress", "GetOptions", "GetModels", "GetMemory"}}

\* the calls and the responses of the runs with two goroutines
ConcInvocations ==
    {Invocation("Txt2Img", Txt2ImageOption(<<"c", "a", "t">>, 20, Float(7)), FALSE),
     Invocation("GetProgress", <<>>, TRUE),
     Invocation("GetModels", <<>>, FALSE)}

ConcResponses ==
    {Response(StatusOK, ImagesBody(<<Img2RawBase64(Image1)>>, InfoText), FALSE),
     Response(StatusOK, ProgressBody, FALSE),
     Response(StatusOK, ModelsBody, FALSE),
     Response(500, <<"b", "o", "o", "m">>, FALSE)}

\* the arguments callers give NewClient
BaseURLs == {<<>>, <<"h", "t", "t", "p", ":", "/", "/", "h">>, <<":", "b", "a", "d">>}
Usernames == {<<>>, <<"u">>}
Passwords == {<<>>, <<"p">>}

(***************************************************************************)
(* The state: the Client, the arguments it was constructed from, and per   *)
(* goroutine the call it is in.                                            *)
(***************************************************************************)
VARIABLES client, args, call

vars == <<client, args, call>>

\* a goroutine that is in no call
IdleCall ==
    [pc |-> "idle", inv |-> NoInvocation, buf |-> <<>>, req |-> NoRequest,
     resp |-> NoResponse, data |-> <<>>, result |-> NilResult,
     err |-> NilError, deferred |-> FALSE, closes |-> 0, sent |-> 0,
     ctxDone |-> FALSE,
     ret |-> [res |-> NilResult, err |-> NilError]]

Init ==
    \E b \in BaseURLs, u \in Usernames, p \in Passwords :
        /\ args = [baseURL |-> b, username |-> u, password |-> p]
        /\ client = NewClient(b, u, p, "httpCli")
        /\ call = [g \in {1} |-> IdleCall]

\* a return statement of doReq that leaves the body open
ReturnErrNoClose(c, e) == [c EXCEPT !.pc = "return", !.err = e]

\* a return statement of doReq: the deferred resp.Body.Close() runs, if it
\* was registered, and the caller gets e
ReturnErr(c, e) ==
    [c EXCEPT !.pc = "return", !.err = e,
              !.closes = IF c.deferred THEN @ + 1 ELSE @]

\* an operation is called with one of invs: it allocates its result and
\* calls doReq
CallWith(g, invs) ==
    /\ call[g].pc \in {"idle", "done"}
    /\ \E inv \in invs :
           call' = [call EXCEPT ![g] =
                       [IdleCall EXCEPT !.pc = "encode", !.inv = inv]]
    /\ UNCHANGED <<client, args>>

Call(g) == CallWith(g, Invocations)

ConcCall(g) == CallWith(g, ConcInvocations)

\* doReq going on to build the request after the encoder failed
EncodeBodyIgnoringError(g) ==
    LET c == call[g]
        a == ArgsOf(c.inv)
        enc == EncodeJSON(a.body)
    IN  /\ c.pc = "encode"
        /\ call' = [call EXCEPT ![g] =
               IF ~a.hasBody THEN [c EXCEPT !.pc = "build"]
               ELSE [c EXCEPT !.pc = "build", !.buf = enc.text]]
        /\ UNCHANGED <<client, args>>

\* doReq, the body: json.NewEncoder(buf).Encode(body) when body is not nil
EncodeBody(g) ==
    LET c == call[g]
        a == ArgsOf(c.inv)
        enc == EncodeJSON(a.body)
    IN  /\ c.pc = "encode"
        /\ call' = [call EXCEPT ![g] =
               IF ~a.hasBody THEN [c EXCEPT !.pc = "build"]
               ELSE IF enc.err
               THEN ReturnErr(c, wrapError(ErrUnsupportedValue, NoResponse,
                                           MsgEncode))
               ELSE [c EXCEPT !.pc = "build", !.buf = enc.text]]
        /\ UNCHANGED <<client, args>>

\* doReq keeping the URL it built in the Client
NewRequestStoringURL(g) ==
    LET c == call[g]
        a == ArgsOf(c.inv)
    IN  /\ c.pc = "build"
        /\ call' = [call EXCEPT ![g] =
               [c EXCEPT !.pc = "send",
                         !.req = BuildRequest(client, a.method, a.path,
                                              a.hasBody, c.buf)]]
        /\ client' = [client EXCEPT
                          !.baseURL = RequestURL(client.baseURL, a.path)]
        /\ UNCHANGED args

\* doReq, the request: NewRequestWithContext, the header, the credentials
NewRequest(g) ==
    LET c == call[g]
        a == ArgsOf(c.inv)
    IN  /\ c.pc = "build"
        /\ call' = [call EXCEPT ![g] =
               IF ~URLValid(RequestURL(client.baseURL, a.path))
               THEN ReturnErr(c, wrapError(ErrMissingScheme, NoResponse,
                                           MsgInit))
               ELSE [c EXCEPT !.pc = "send",
                              !.req = BuildRequest(client, a.method, a.path,
                                                   a.hasBody, c.buf)]]
        /\ UNCHANGED <<client, args>>

\* c.cli.Do(req) handing the request to the transport a second time
DoRetry(g) ==
    LET c == call[g]
    IN  /\ c.pc = "send"
        /\ \/ call' = [call EXCEPT ![g] = [c EXCEPT !.sent = @ + 1]]
           \/ call' = [call EXCEPT ![g] =
                  [c EXCEPT !.pc = "inflight", !.sent = @ + 1]]
        /\ UNCHANGED <<client, args>>

\* doReq, c.cli.Do(req): the request is handed to the transport and the
\* goroutine blocks in Do until the transport returns
Do(g) ==
    LET c == call[g]
    IN  /\ c.pc = "send"
        /\ call' = [call EXCEPT ![g] =
               [c EXCEPT !.pc = "inflight", !.sent = @ + 1]]
        /\ UNCHANGED <<client, args>>

\* c.cli.Do(req) returns an error: the transport failed
DoError(g) ==
    LET c == call[g]
    IN  /\ c.pc = "inflight"
        /\ call' = [call EXCEPT ![g] =
               ReturnErr(c, wrapError(ErrTransport, NoResponse, MsgDo))]
        /\ UNCHANGED <<client, args>>

\* c.cli.Do(req) returns a response, one of resps, whose Body.Close is
\* deferred; a transport that honours the context hands back no response
\* once the context is done
DoResponseWith(g, resps) ==
    LET c == call[g]
    IN  /\ c.pc = "inflight"
        /\ ~c.ctxDone
        /\ \E r \in resps :
               call' = [call EXCEPT ![g] =
                   [c EXCEPT !.pc = "read", !.resp = r, !.deferred = TRUE]]
        /\ UNCHANGED <<client, args>>

DoResponse(g) == DoResponseWith(g, Responses)

ConcDoResponse(g) == DoResponseWith(g, ConcResponses)

\* a request built without the context: the transport never learns that
\* the context is done
DoWithoutContext(g) ==
    /\ FALSE
    /\ UNCHANGED vars

\* c.cli.Do(req) returns the context's error: the request was built by
\* NewRequestWithContext(ctx, ...), and the context is done while the
\* request is in flight
DoContextDone(g) ==
    LET c == call[g]
    IN  /\ c.pc = "inflight"
        /\ c.ctxDone
        /\ call' = [call EXCEPT ![g] =
               ReturnErr(c, wrapError(ErrContextCanceled, NoResponse, MsgDo))]
        /\ UNCHANGED <<client, args>>

\* the caller's context is cancelled, or its deadline passes, while doReq
\* runs; no step after io.ReadAll consults the context, and a body that
\* is being read may break off
CancelContext(g) ==
    LET c == call[g]
    IN  /\ c.pc \in {"encode", "build", "send", "inflight", "read"}
        /\ ~c.ctxDone
        /\ \E broken \in (IF c.pc = "read" THEN {c.resp.readErr, TRUE}
                           ELSE {FALSE}) :
               call' = [call EXCEPT ![g] =
                   [c EXCEPT !.ctxDone = TRUE,
                             !.resp = IF c.pc = "read"
                                      THEN [@ EXCEPT !.readErr = broken]
                                      ELSE @]]
        /\ UNCHANGED <<client, args>>

\* doReq, io.ReadAll(resp.Body)
ReadAll(g) ==
    LET c == call[g]
    IN  /\ c.pc = "read"
        /\ call' = [call EXCEPT ![g] =
               IF c.resp.readErr
               THEN ReturnErr(c, wrapError(ErrUnexpectedEOF, c.resp, MsgRead))
               ELSE [c EXCEPT !.pc = "status", !.data = c.resp.Body]]
        /\ UNCHANGED <<client, args>>

\* doReq, the status check
CheckStatus(g) ==
    LET c == call[g]
        a == ArgsOf(c.inv)
    IN  /\ c.pc = "status"
        /\ call' = [call EXCEPT ![g] =
               IF c.resp.StatusCode # a.expectedStatus
               THEN ReturnErr(c, wrapError(NilCause, c.resp,
                                  MsgStatus(c.resp.StatusCode, c.data)))
               ELSE [c EXCEPT !.pc = "unmarshal"]]
        /\ UNCHANGED <<client, args>>

\* doReq, json.Unmarshal(data, result) and the final return nil
UnmarshalResult(g) ==
    LET c == call[g]
        a == ArgsOf(c.inv)
        u == Unmarshal(c.data, ResultType(a.result))
    IN  /\ c.pc = "unmarshal"
        /\ call' = [call EXCEPT ![g] =
               IF u.err
               THEN ReturnErr(c, wrapError(ErrJSON, c.resp, MsgParse))
               ELSE ReturnErr([c EXCEPT !.result = NewResult(a.result, u.v)],
                              NilError)]
        /\ UNCHANGED <<client, args>>

\* the operation, after doReq: what it returns to its caller
Return(g) ==
    LET c == call[g]
    IN  /\ c.pc = "return"
        /\ call' = [call EXCEPT ![g] =
               [c EXCEPT !.pc = "done",
                         !.ret = ReturnOf(c.inv.op, c.err, c.result)]]
        /\ UNCHANGED <<client, args>>

Next ==
    \/ \E g \in DOMAIN call : Call(g)
    \/ \E g \in DOMAIN call : EncodeBody(g)
    \/ \E g \in DOMAIN call : NewRequest(g)
    \/ \E g \in DOMAIN call : Do(g)
    \/ \E g \in DOMAIN call : DoError(g)
    \/ \E g \in DOMAIN call : DoResponse(g)
    \/ \E g \in DOMAIN call : DoContextDone(g)
    \/ \E g \in DOMAIN call : CancelContext(g)
    \/ \E g \in DOMAIN call : ReadAll(g)
    \/ \E g \in DOMAIN call : CheckStatus(g)
    \/ \E g \in DOMAIN call : UnmarshalResult(g)
    \/ \E g \in DOMAIN call : Return(g)

Spec == Init /\ [][Next]_vars

\* Two goroutines call the operations of one Client, which was given a
\* base URL and both credentials.
ConcInit ==
    \E b \in {<<>>, <<"h", "t", "t", "p", ":", "/", "/", "h">>} :
        /\ args = [baseURL |-> b, username |-> <<"u">>, password |-> <<"p">>]
        /\ client = NewClient(b, <<"u">>, <<"p">>, "httpCli")
        /\ call = [g \in {1, 2} |-> IdleCall]

ConcNext ==
    \/ \E g \in DOMAIN call : ConcCall(g)
    \/ \E g \in DOMAIN call : EncodeBody(g)
    \/ \E g \in DOMAIN call : NewRequest(g)
    \/ \E g \in DOMAIN call : Do(g)
    \/ \E g \in DOMAIN call : DoError(g)
    \/ \E g \in DOMAIN call : ConcDoResponse(g)
    \/ \E g \in DOMAIN call : DoContextDone(g)
    \/ \E g \in DOMAIN call : CancelContext(g)
    \/ \E g \in DOMAIN call : ReadAll(g)
    \/ \E g \in DOMAIN call : CheckStatus(g)
    \/ \E g \in DOMAIN call : UnmarshalResult(g)
    \/ \E g \in DOMAIN call : Return(g)

ConcSpec == ConcInit /\ [][ConcNext]_vars

\* The earlier version: one goroutine calls the operations of a Client
\* built by its NewClient.
Part000Init ==
    \E b \in BaseURLs \ {<<>>} :
        /\ args = [baseURL |-> b, username |-> <<>>, password |-> <<>>]
        /\ client = Part000NewClient(b, "httpCli")
        /\ call = [g \in {1} |-> IdleCall]

Part000Call(g) == CallWith(g, Part000Invocations)

Part000Return(g) ==
    LET c == call[g]
    IN  /\ c.pc = "return"
        /\ call' = [call EXCEPT ![g] =
               [c EXCEPT !.pc = "done",
                         !.ret = Part000ReturnOf(c.inv.op, c.err, c.result)]]
        /\ UNCHANGED <<client, args>>

Part000Next ==
    \/ \E g \in DOMAIN call : Part000Call(g)
    \/ \E g \in DOMAIN call : EncodeBody(g)
    \/ \E g \in DOMAIN call : NewRequest(g)
    \/ \E g \in DOMAIN call : Do(g)
    \/ \E g \in DOMAIN call : DoError(g)
    \/ \E g \in DOMAIN call : DoResponse(g)
    \/ \E g \in DOMAIN call : DoContextDone(g)
    \/ \E g \in DOMAIN call : CancelContext(g)
    \/ \E g \in DOMAIN call : ReadAll(g)
    \/ \E g \in DOMAIN call : CheckStatus(g)
    \/ \E g \in DOMAIN call : UnmarshalResult(g)
    \/ \E g \in DOMAIN call : Part000Return(g)

Part000Spec == Part000Init /\ [][Part000Next]_vars

\* the operation handing doReq's error to its caller: if err != nil
\* { return nil, err }
ReturnError(g) == ~call[g].err.nil /\ Return(g)

\* What the scheduling promises to a cancelled call: a transport that
\* honours the context returns from Do once the context is done, and the
\* goroutine that holds doReq's error runs on to return it. No response and
\* no transport error is promised, and no caller is bound to cancel or to
\* call again.
LiveSpec ==
    Spec /\ WF_vars(DoContextDone(1)) /\ WF_vars(ReturnError(1))

(***************************************************************************)
(* The properties.                                                         *)
(***************************************************************************)
\* the calls that have returned to their caller
Returned == {call[g] : g \in {h \in DOMAIN call : call[h].pc = "done"}}

\* the calls whose request has been handed to the transport
Sent == {call[g] : g \in {h \in DOMAIN call : call[h].req.present}}

\* the decimal text of the status codes of the model
Decimal(status) ==
    IF status = 200 THEN <<"2", "0", "0">>
    ELSE IF status = 201 THEN <<"2", "0", "1">>
    ELSE IF status = 404 THEN <<"4", "0", "4">>
    ELSE <<"5", "0", "0">>

\* c returned the status error of its response
IsStatusError(c) ==
    /\ ~c.ret.err.nil
    /\ Contains(ErrorString(c.ret.err), Decimal(c.resp.StatusCode))
    /\ Contains(ErrorString(c.ret.err), c.resp.Body)
    /\ c.ret.err.Response = c.resp

\* C1, as stated: whenever the status of the received response is not 200,
\* the call returns an error whose message contains the decimal status code
\* and the body text and whose Response field is the received response.
C1_StatusErrorWhenever ==
    \A c \in Returned :
        (c.resp.present /\ c.resp.StatusCode # 200) => IsStatusError(c)

\* C1, amended: whenever the body of the received response was read to the
\* end and its status is not 200, the call returns an error whose message
\* contains the decimal status code and the body text and whose Response
\* field is the received response.
C1_StatusError ==
    \A c \in Returned :
        (c.resp.present /\ ~c.resp.readErr /\ c.resp.StatusCode # 200)
            => IsStatusError(c)

C1_Witness ==
    \E c \in Returned :
        /\ c.resp = Response(500, <<"b", "o", "o", "m">>, FALSE)
        /\ ErrorString(c.ret.err) = <<"g", "o", "t", " ", "b", "a", "d", " ", "s", "t", "a", "t", "u", "s", " ", "5", "0", "0", ",", " ", "b", "o", "d", "y", ":", " ", "b", "o", "o", "m", ":", " ", "<", "n", "i", "l", ">">>

\* C2: a request carries basic-auth credentials if and only if the username
\* and the password given to NewClient are both non-empty, and then it
\* carries exactly those.
C2_BasicAuth ==
    \A c \in Sent :
        /\ c.req.auth.set <=> (Len(args.username) # 0 /\ Len(args.password) # 0)
        /\ c.req.auth.set => /\ c.req.auth.username = args.username
                             /\ c.req.auth.password = args.password

ImageOps == {"Txt2Img", "Img2Img"}

\* the image is among the decoded ones
Holds(parsed, img) == \E j \in 1..Len(parsed) : parsed[j] = img

\* C3: in a successful Txt2Img or Img2Img response, an entry that is the
\* data URL of a valid PNG (the output of Img2Base64) is decoded and appears
\* in ParsedImages.
C3_DataURLDecoded ==
    \A c \in Returned :
        (c.inv.op \in ImageOps /\ c.ret.err.nil) =>
            \A i \in 1..Len(c.ret.res.Images) : \A img \in {Image1, Image2} :
                c.ret.res.Images[i] = Img2Base64(img)
                    => Holds(c.ret.res.ParsedImages, img)

\* the method and path of the endpoint an invocation is bound to
Endpoint(method, path) == [method |-> method, path |-> path]

EndpointOf(inv) ==
    IF inv.op = "Txt2Img" THEN Endpoint("POST", <<"/", "t", "x", "t", "2", "i", "m", "g">>)
    ELSE IF inv.op = "Img2Img" THEN Endpoint("POST", <<"/", "i", "m", "g", "2", "i", "m", "g">>)
    ELSE IF inv.op = "ExtraSingleImg"
    THEN Endpoint("POST", <<"/", "e", "x", "t", "r", "a", "-", "s", "i", "n", "g", "l", "e", "-", "i", "m", "a", "g", "e">>)
    ELSE IF inv.op = "GetProgress" THEN
        IF inv.skip THEN Endpoint("GET", <<"/", "p", "r", "o", "g", "r", "e", "s", "s", "?", "s", "k", "i", "p", "_", "c", "u", "r", "r", "e", "n", "t", "_", "i", "m", "a", "g", "e", "=", "t", "r", "u", "e">>)
        ELSE Endpoint("GET", <<"/", "p", "r", "o", "g", "r", "e", "s", "s", "?", "s", "k", "i", "p", "_", "c", "u", "r", "r", "e", "n", "t", "_", "i", "m", "a", "g", "e", "=", "f", "a", "l", "s", "e">>)
    ELSE IF inv.op = "GetOptions" THEN Endpoint("GET", <<"/", "o", "p", "t", "i", "o", "n", "s">>)
    ELSE IF inv.op = "GetModels" THEN Endpoint("GET", <<"/", "s", "d", "-", "m", "o", "d", "e", "l", "s">>)
    ELSE Endpoint("GET", <<"/", "m", "e", "m", "o", "r", "y">>)

\* the endpoints of the interface list other than POST /options
BoundEndpoints ==
    {Endpoint("POST", <<"/", "t", "x", "t", "2", "i", "m", "g">>), Endpoint("POST", <<"/", "i", "m", "g", "2", "i", "m", "g">>),
     Endpoint("POST", <<"/", "e", "x", "t", "r", "a", "-", "s", "i", "n", "g", "l", "e", "-", "i", "m", "a", "g", "e">>),
     Endpoint("GET", <<"/", "p", "r", "o", "g", "r", "e", "s", "s", "?", "s", "k", "i", "p", "_", "c", "u", "r", "r", "e", "n", "t", "_", "i", "m", "a", "g", "e", "=", "t", "r", "u", "e">>),
     Endpoint("GET", <<"/", "p", "r", "o", "g", "r", "e", "s", "s", "?", "s", "k", "i", "p", "_", "c", "u", "r", "r", "e", "n", "t", "_", "i", "m", "a", "g", "e", "=", "f", "a", "l", "s", "e">>),
     Endpoint("GET", <<"/", "o", "p", "t", "i", "o", "n", "s">>), Endpoint("GET", <<"/", "s", "d", "-", "m", "o", "d", "e", "l", "s">>),
     Endpoint("GET", <<"/", "m", "e", "m", "o", "r", "y">>)}

ListedEndpoints == BoundEndpoints \cup {Endpoint("POST", <<"/", "o", "p", "t", "i", "o", "n", "s">>)}

\* some operation of the client makes the doReq call of endpoint e
Exposed(e) ==
    \E inv \in Invocations :
        ArgsOf(inv).method = e.method /\ ArgsOf(inv).path = e.path

\* every request goes with its endpoint's method to
\* <baseURL>/sdapi/v1<path>, and a call succeeds only on status 200 and
\* never returns a status error for status 200
RequestsMatchEndpoints ==
    /\ \A c \in Sent :
           /\ c.req.method = EndpointOf(c.inv).method
           /\ c.req.url = client.baseURL \o <<"/", "s", "d", "a", "p", "i", "/", "v", "1">> \o EndpointOf(c.inv).path
    /\ \A c \in Returned :
           /\ c.ret.err.nil => (c.resp.present /\ c.resp.StatusCode = 200)
           /\ (c.resp.present /\ ~c.resp.readErr /\ c.resp.StatusCode = 200)
                  => (c.ret.err.nil \/ c.ret.err.Msg = <<"f", "a", "i", "l", "e", "d", " ", "t", "o", " ", "p", "a", "r", "s", "e", " ", "r", "e", "s", "p", "o", "n", "s", "e">>)

StatusMismatch(c) ==
    c.resp.present /\ ~c.resp.readErr /\ c.resp.StatusCode # 200

\* C5, as stated: every error an operation returns exposes a non-nil cause
\* through Unwrap and has a non-empty message.
C5_EveryErrorHasCause ==
    \A c \in Returned :
        ~c.ret.err.nil =>
            ~Unwrap(c.ret.err).nil /\ Len(c.ret.err.Msg) > 0

\* C5, amended: every error an operation returns has a non-empty message;
\* encoding, construction, transport, read and decode errors expose a
\* non-nil cause through Unwrap, and the status error, and only it, has a
\* nil cause.
C5_ErrorCause ==
    \A c \in Returned :
        ~c.ret.err.nil =>
            /\ Len(c.ret.err.Msg) > 0
            /\ Unwrap(c.ret.err).nil <=> StatusMismatch(c)

C5_Witness ==
    \E c \in Returned :
        /\ StatusMismatch(c)
        /\ ~c.ret.err.nil
        /\ Unwrap(c.ret.err).nil
        /\ Len(c.ret.err.Msg) > 0

\* c returned the decode error
IsDecodeError(c) ==
    /\ ~c.ret.err.nil
    /\ c.ret.err.Msg = <<"f", "a", "i", "l", "e", "d", " ", "t", "o", " ", "p", "a", "r", "s", "e", " ", "r", "e", "s", "p", "o", "n", "s", "e">>
    /\ c.ret.res.nil

\* C6, as stated: a received response whose body is not valid JSON for the
\* result type always makes the call return the decode error.
C6_MalformedAlwaysDecodeError ==
    \A c \in Returned :
        (c.resp.present /\ c.resp.Body \in NotValidFor(c.inv.op))
            => IsDecodeError(c)

\* C6, amended: a received response with status 200 whose body was read to
\* the end and is not valid JSON for the result type always makes the call
\* return the decode error (message "failed to parse response") and no
\* result; with another status the call returns the status error, and when
\* the body cannot be read the read error.
C6_DecodeError ==
    \A c \in Returned :
        (c.resp.present /\ c.resp.Body \in NotValidFor(c.inv.op)) =>
            IF c.resp.readErr
            THEN ~c.ret.err.nil /\ c.ret.err.Msg = <<"f", "a", "i", "l", "e", "d", " ", "t", "o", " ", "r", "e", "a", "d", " ", "r", "e", "s", "p", "o", "n", "s", "e", " ", "b", "o", "d", "y">>
            ELSE IF c.resp.StatusCode # 200 THEN IsStatusError(c)
            ELSE IsDecodeError(c)

C6_Witness ==
    \E c \in Returned :
        /\ c.inv.op = "Txt2Img"
        /\ c.resp = Response(200, <<"{", "\"", "i", "m", "a", "g", "e", "s", "\"", ":", "\"", "x", "\"", ",", "\"", "i", "m", "a", "g", "e", "\"", ":", "1", ",", "\"", "t", "e", "x", "t", "i", "n", "f", "o", "\"", ":", "1", ",", "\"", "s", "d", "_", "m", "o", "d", "e", "l", "_", "c", "h", "e", "c", "k", "p", "o", "i", "n", "t", "\"", ":", "1", ",", "\"", "r", "a", "m", "\"", ":", "1", "}">>, FALSE)
        /\ IsDecodeError(c)

\* C7: in every call in which the transport hands back a response, the body
\* is closed exactly once before the call returns, on every exit path; it is
\* not closed while doReq still reads, and never more than once.
C7_BodyClosedOnce ==
    \A g \in DOMAIN call :
        /\ call[g].pc \in {"return", "done"}
               => call[g].closes = IF call[g].resp.present THEN 1 ELSE 0
        /\ call[g].pc \notin {"return", "done"} => call[g].closes = 0

C7_Witness ==
    \E c \in Returned :
        /\ c.resp.present /\ c.resp.readErr
        /\ c.ret.err.Msg = <<"f", "a", "i", "l", "e", "d", " ", "t", "o", " ", "r", "e", "a", "d", " ", "r", "e", "s", "p", "o", "n", "s", "e", " ", "b", "o", "d", "y">>
        /\ c.closes = 1

\* C8: a call sends at most one request: none before it reaches the
\* transport, exactly one from then on, whatever the outcome.
C8_OneRequest ==
    \A g \in DOMAIN call :
        /\ call[g].sent <= 1
        /\ call[g].pc \in {"idle", "encode", "build", "send"} => call[g].sent = 0
        /\ call[g].pc \in {"inflight", "read", "status", "unmarshal"}
               => call[g].sent = 1
        /\ call[g].pc \in {"return", "done"}
               => call[g].sent = IF call[g].req.present THEN 1 ELSE 0

C8_Witness ==
    \E c \in Returned :
        /\ c.sent = 1
        /\ ~c.resp.present
        /\ c.ret.err.Msg = <<"f", "a", "i", "l", "e", "d", " ", "t", "o", " ", "d", "o", " ", "r", "e", "q", "u", "e", "s", "t">>

\* the HTTP exchange of c succeeded: status 200, the body read, and a body
\* that is JSON of the result type
ExchangeOK(c) ==
    /\ c.resp.present /\ ~c.resp.readErr /\ c.resp.StatusCode = 200
    /\ c.resp.Body \in WellFormedBodies \ NotValidFor(c.inv.op)

\* C9: whenever the HTTP exchange of Txt2Img, Img2Img or ExtraSingleImg
\* succeeds, the operation returns a non-nil response and a nil error,
\* whatever the image strings contain.
C9_ImageFailuresNonFatal ==
    \A c \in Returned :
        (c.inv.op \in {"Txt2Img", "Img2Img", "ExtraSingleImg"} /\ ExchangeOK(c))
            => c.ret.err.nil /\ ~c.ret.res.nil

C9_Witness ==
    \E c \in Returned :
        /\ c.inv.op = "Txt2Img"
        /\ c.resp = Response(200, ImagesBody(<<NotBase64, NotPNG>>, InfoText), FALSE)
        /\ c.ret.err.nil /\ ~c.ret.res.nil
        /\ c.ret.res.ParsedImages = <<>>

\* whether an entry passes base64 and PNG decoding, and what it decodes to
Decodes(entry) ==
    ~B64Decode(entry).err /\ ~PNGDecode(B64Decode(entry).data).err

DecodingOf(entry) == PNGDecode(B64Decode(entry).data).img

\* the decodings of the entries that decode, in order
RECURSIVE DecodingsOf(_)
DecodingsOf(images) ==
    IF Len(images) = 0 THEN <<>>
    ELSE (IF Decodes(images[1]) THEN <<DecodingOf(images[1])>> ELSE <<>>)
         \o DecodingsOf(Tail(images))

\* the image a bare base64 string of the model encodes
ImageOfRaw(s) == IF s = <<"i", "V", "B", "O", "R", "w", "0", "K", "G", "g", "o", "B", "A", "Q", "=", "=">> THEN Image1 ELSE Image2

RawLists == SeqsUpTo({<<"i", "V", "B", "O", "R", "w", "0", "K", "G", "g", "o", "B", "A", "Q", "=", "=">>, <<"i", "V", "B", "O", "R", "w", "0", "K", "G", "g", "o", "C", "A", "Q", "=", "=">>}, MaxImages)

\* C10: for a successful Txt2Img or Img2Img response, ParsedImages is
\* exactly the decodings of the entries of Images that pass base64 and PNG
\* decoding, in response order; a response of n bare base64 PNGs yields
\* exactly those n images, and Images and Info are the response's fields.
C10_ParsedImages ==
    \A c \in Returned :
        (c.inv.op \in ImageOps /\ c.ret.err.nil) =>
            /\ c.ret.res.ParsedImages = DecodingsOf(c.ret.res.Images)
            /\ \A l \in ImageLists :
                   c.resp.Body = ImagesBody(l, InfoText)
                       => c.ret.res.Images = l /\ c.ret.res.Info = InfoText
            /\ \A l \in RawLists :
                   c.resp.Body = ImagesBody(l, InfoText)
                       => c.ret.res.ParsedImages
                              = [i \in 1..Len(l) |-> ImageOfRaw(l[i])]

C10_Witness ==
    \E c \in Returned :
        /\ c.inv.op = "Img2Img"
        /\ c.ret.err.nil
        /\ c.ret.res.Images = <<<<"i", "V", "B", "O", "R", "w", "0", "K", "G", "g", "o", "C", "A", "Q", "=", "=">>, <<"A", "A", "A", "A">>>>
        /\ c.ret.res.ParsedImages = <<Image2>>
        /\ c.ret.res.Info = <<"x">>

\* the request of goroutine g is in flight, the server has not responded,
\* and the context is done
InFlightContextDone(g) == call[g].pc = "inflight" /\ call[g].ctxDone

\* C11: if the caller's context is cancelled or its deadline passes while
\* a request is in flight and before the server responds, and the transport
\* honours the context, the call eventually returns with a non-nil error
\* instead of blocking forever.
C11_CancelledCallReturns ==
    InFlightContextDone(1) ~> (call[1].pc = "done" /\ ~call[1].ret.err.nil)

C11_Witness ==
    \E c \in Returned :
        /\ c.ctxDone
        /\ c.sent = 1
        /\ ~c.resp.present
        /\ ~c.ret.err.nil
        /\ c.ret.err.Err = Cause(<<"c", "o", "n", "t", "e", "x", "t", " ", "c", "a", "n", "c", "e", "l", "e", "d">>)

\* two calls with the same arguments
SameArguments(c, d) == c.inv = d.inv /\ c.inv # NoInvocation

\* two calls to which the transport handed the same response
SameResponse(c, d) == c.resp.present /\ c.resp = d.resp

\* C12: no operation ever changes the Client's fields after construction,
\* so under any interleaving of concurrent calls on one Client the request
\* each call sends and the outcome it returns depend only on its own
\* arguments and its own response: two calls with the same arguments send
\* the same request, and return the same result and error when they
\* received the same response, whatever the other goroutine does meanwhile.
C12_CallsIndependent ==
    /\ [][client' = client]_vars
    /\ [](\A g, h \in DOMAIN call :
             LET c == call[g]
                 d == call[h]
             IN  /\ (SameArguments(c, d) /\ c.req.present /\ d.req.present)
                        => c.req = d.req
                 /\ (SameArguments(c, d) /\ SameResponse(c, d)
                        /\ c.pc = "done" /\ d.pc = "done")
                        => c.ret = d.ret)

C12_Witness ==
    /\ DOMAIN call = {1, 2}
    /\ call[1].pc = "done" /\ call[1].inv.op = "GetProgress"
    /\ call[1].ret.err.nil
    /\ call[2].pc = "done" /\ call[2].inv = call[1].inv
    /\ call[2].resp = call[1].resp
    /\ call[2].req = call[1].req
    /\ call[2].ret = call[1].ret
    /\ call[2].ctxDone /\ ~call[1].ctxDone

\* C13: a client constructed with an empty base URL sends every request to
\* http://127.0.0.1:7860/sdapi/v1<path>; a client constructed with a
\* non-empty base URL sends every request to <that base URL>/sdapi/v1<path>,
\* the base URL being used unchanged.
C13_BaseURL ==
    \A c \in Sent :
        c.req.url =
            (IF args.baseURL = <<>>
             THEN <<"h", "t", "t", "p", ":", "/", "/", "1", "2", "7", ".", "0", ".", "0", ".", "1", ":", "7", "8", "6", "0">>
             ELSE args.baseURL)
            \o <<"/", "s", "d", "a", "p", "i", "/", "v", "1">> \o EndpointOf(c.inv).path

C13_Witness ==
    \E c \in Sent :
        /\ args.baseURL = <<>>
        /\ c.inv.op = "GetMemory"
        /\ c.sent = 1
        /\ c.req.url = <<"h", "t", "t", "p", ":", "/", "/", "1", "2", "7", ".", "0", ".", "0", ".", "1", ":", "7", "8", "6", "0", "/", "s", "d", "a", "p", "i", "/", "v", "1", "/", "m", "e", "m", "o", "r", "y">>

\* the field holds the zero value of its Go type
IsZeroField(f) ==
    /\ f.s = <<>>
    /\ f.n = 0
    /\ ~f.b
    /\ ~f.nan
    /\ f.list = <<>>

\* the JSON text body has a member named key
HasKey(body, key) == Contains(body, <<"\"">> \o key \o <<"\"", ":">>)

\* C14: for each option struct, a request built from an option value whose
\* fields are all zero carries a JSON body that contains no key, and in
\* general a key is present in the body only if its field is non-zero.
C14_OmitEmpty ==
    \A c \in Sent :
        c.req.hasBody =>
            /\ (\A i \in DOMAIN c.inv.opt : IsZeroField(c.inv.opt[i]))
                   => c.req.body = <<"{", "}", "\n">>
            /\ \A i \in DOMAIN c.inv.opt :
                   HasKey(c.req.body, c.inv.opt[i].key)
                       => ~IsZeroField(c.inv.opt[i])

C14_Witness ==
    \E c \in Sent :
        /\ c.inv.op = "ExtraSingleImg"
        /\ \A i \in DOMAIN c.inv.opt : IsZeroField(c.inv.opt[i])
        /\ c.req.hasBody
        /\ c.req.body = <<"{", "}", "\n">>
        /\ c.sent = 1

\* the steps of doReq in their order: each pair is a step and the one
\* that follows it when it succeeds; sending is handing the request to the
\* transport and waiting for it
StepOrder ==
    {<<"encode", "build">>, <<"build", "send">>, <<"send", "inflight">>,
     <<"inflight", "read">>, <<"read", "status">>, <<"status", "unmarshal">>}

\* how the message of the error of each step begins
StepMessage(step) ==
    IF step = "encode" THEN <<"f", "a", "i", "l", "e", "d", " ", "t", "o", " ", "e", "n", "c", "o", "d", "e", " ", "b", "o", "d", "y">>
    ELSE IF step = "build" THEN <<"f", "a", "i", "l", "e", "d", " ", "t", "o", " ", "i", "n", "i", "t", "i", "a", "l", "i", "z", "e", " ", "r", "e", "q", "u", "e", "s", "t">>
    ELSE IF step = "inflight" THEN <<"f", "a", "i", "l", "e", "d", " ", "t", "o", " ", "d", "o", " ", "r", "e", "q", "u", "e", "s", "t">>
    ELSE IF step = "read" THEN <<"f", "a", "i", "l", "e", "d", " ", "t", "o", " ", "r", "e", "a", "d", " ", "r", "e", "s", "p", "o", "n", "s", "e", " ", "b", "o", "d", "y">>
    ELSE IF step = "status" THEN <<"g", "o", "t", " ", "b", "a", "d", " ", "s", "t", "a", "t", "u", "s", " ">>
    ELSE <<"f", "a", "i", "l", "e", "d", " ", "t", "o", " ", "p", "a", "r", "s", "e", " ", "r", "e", "s", "p", "o", "n", "s", "e">>

\* the option value of the call has a NaN field, which no encoder accepts
EncodeFails(c) == \E i \in DOMAIN c.inv.opt : c.inv.opt[i].nan

\* the base URL the client was given is one no request can be built from
BuildFails == args.baseURL = <<":", "b", "a", "d">>

\* one step of goroutine g, from the call record c to the call record d
InOrder(c, d) ==
    /\ c.pc # d.pc =>
           \/ <<c.pc, d.pc>> \in StepOrder /\ d.err.nil
           \/ /\ d.pc = "return"
              /\ c.pc \in {"encode", "build", "inflight", "read", "status",
                            "unmarshal"}
              /\ d.err.nil => c.pc = "unmarshal"
              /\ ~d.err.nil =>
                     SubSeq(d.err.Msg, 1, Len(StepMessage(c.pc)))
                         = StepMessage(c.pc)
           \/ c.pc = "return" /\ d.pc = "done"
           \/ c.pc \in {"idle", "done"} /\ d.pc = "encode"
    /\ d.pc # "encode" =>
           /\ d.buf # c.buf => c.pc = "encode"
           /\ d.req # c.req => c.pc = "build"
           /\ d.sent # c.sent => c.pc = "send"
           /\ d.data # c.data => c.pc = "read"
           /\ d.result # c.result =>
                  (c.pc = "unmarshal" /\ c.resp.StatusCode = 200
                   /\ c.data = c.resp.Body)

\* C15: doReq performs its steps in the fixed order encode body, build
\* request, send, read body, compare status, decode JSON; the first failing
\* step ends the call with that step's error and no later step runs: no
\* request is sent when encoding or request construction fails, and the body
\* is decoded into the result only after the status matched.
C15_StepsInOrder ==
    /\ [][\A g \in DOMAIN call : InOrder(call[g], call'[g])]_vars
    /\ [](\A g \in DOMAIN call :
             LET c == call[g]
             IN  /\ (EncodeFails(c) \/ BuildFails) =>
                        (c.sent = 0 /\ ~c.req.present /\ ~c.resp.present)
                 /\ (EncodeFails(c) /\ c.pc \in {"return", "done"}) =>
                        c.err.Msg = StepMessage("encode")
                 /\ ~c.result.nil =>
                        (c.resp.StatusCode = 200 /\ ~c.resp.readErr))

C15_Witness ==
    \E c \in Returned :
        /\ c.inv.op = "Img2Img"
        /\ EncodeFails(c)
        /\ ~BuildFails
        /\ c.sent = 0
        /\ ~c.req.present
        /\ ~c.ret.err.nil
        /\ c.ret.err.Msg = <<"f", "a", "i", "l", "e", "d", " ", "t", "o", " ", "e", "n", "c", "o", "d", "e", " ", "b", "o", "d", "y">>

\* the part of s before its first comma, s itself when it has none
BeforeComma(s) ==
    IF IndexOf(s, ",") = 0 THEN s ELSE SubSeq(s, 1, IndexOf(s, ",") - 1)

\* the raw bytes the enrichment keeps of one image string when text is what
\* it hands to base64 decoding: none when text does not decode
RawOf(text) == IF B64Decode(text).err THEN <<>> ELSE <<B64Decode(text).data>>

\* the raw bytes kept of a list when each entry is handed over whole, and
\* when only its part before the first comma is
RECURSIVE RawsOfWhole(_)
RawsOfWhole(images) ==
    IF Len(images) = 0 THEN <<>>
    ELSE RawOf(images[1]) \o RawsOfWhole(Tail(images))

RECURSIVE RawsOfPrefixes(_)
RawsOfPrefixes(images) ==
    IF Len(images) = 0 THEN <<>>
    ELSE RawOf(BeforeComma(images[1])) \o RawsOfPrefixes(Tail(images))

\* RawImage of ExtraSingleImg when text is what the enrichment hands to
\* base64 decoding: left empty when text does not decode
RawImageOf(text) ==
    IF B64Decode(text).err THEN <<>> ELSE B64Decode(text).data

\* C16, as stated: during enrichment, for an image string that contains a
\* comma the text handed to base64 decoding is only the part before the
\* first comma, and for a string without a comma it is the whole string.
C16_PrefixHanded ==
    \A c \in Returned :
        /\ (c.inv.op \in ImageOps /\ c.ret.err.nil) =>
               c.ret.res.RawImages = RawsOfPrefixes(c.ret.res.Images)
        /\ (c.inv.op = "ExtraSingleImg" /\ c.ret.err.nil) =>
               c.ret.res.RawImage = RawImageOf(BeforeComma(c.ret.res.Image))

\* C16, amended: during enrichment the text handed to base64 decoding is
\* always the whole image string, whether or not it contains a comma.
C16_WholeHanded ==
    \A c \in Returned :
        /\ (c.inv.op \in ImageOps /\ c.ret.err.nil) =>
               c.ret.res.RawImages = RawsOfWhole(c.ret.res.Images)
        /\ (c.inv.op = "ExtraSingleImg" /\ c.ret.err.nil) =>
               c.ret.res.RawImage = RawImageOf(c.ret.res.Image)

C16_Witness ==
    \E c \in Returned :
        /\ c.inv.op = "ExtraSingleImg"
        /\ c.ret.err.nil
        /\ c.ret.res.Image = <<"A", "A", "A", "A", ",", "A", "A", "A", "A">>
        /\ c.ret.res.RawImage = <<>>
        /\ c.ret.res.ParsedImage = NilImage

\* C17: in the Txt2Img that returns the image list directly, every
\* element of the returned list is a successfully decoded image: an entry
\* whose bytes fail base64 or PNG decoding is omitted from the list and is
\* never returned as an empty (nil) image.
C17_NoNilImage ==
    \A c \in Returned :
        (c.inv.op = "Txt2Img" /\ c.ret.err.nil
             /\ c.ret.res.type = "[]image.Image") =>
            /\ \A i \in DOMAIN c.ret.res.list : c.ret.res.list[i] # NilImage
            /\ c.ret.res.list = DecodingsOf(c.result.Images)

\* the entries of images that are base64, in order
Base64Entries(images) ==
    LET IsBase64(entry) == ~B64Decode(entry).err
    IN  SelectSeq(images, IsBase64)

\* C18: for every successful Txt2Img or Img2Img response,
\* len(ParsedImages) <= len(RawImages) <= len(Images): RawImages holds, in
\* response order, the bytes of every entry whose base64 decoding succeeds,
\* including entries whose bytes are not a valid PNG, and every element of
\* ParsedImages is the PNG decoding of some element of RawImages.
C18_RawImages ==
    \A c \in Returned :
        (c.inv.op \in ImageOps /\ c.ret.err.nil) =>
            LET res == c.ret.res
            IN  /\ Len(res.ParsedImages) <= Len(res.RawImages)
                /\ Len(res.RawImages) <= Len(res.Images)
                /\ res.RawImages =
                       [i \in 1..Len(Base64Entries(res.Images)) |->
                           B64Decode(Base64Entries(res.Images)[i]).data]
                /\ \A i \in DOMAIN res.ParsedImages :
                       \E j \in DOMAIN res.RawImages :
                           /\ ~PNGDecode(res.RawImages[j]).err
                           /\ PNGDecode(res.RawImages[j]).img
                                  = res.ParsedImages[i]

C18_Witness ==
    \E c \in Returned :
        /\ c.inv.op = "Txt2Img"
        /\ c.ret.err.nil
        /\ c.ret.res.Images = <<<<"A", "A", "A", "A">>, <<"i", "V", "B", "O", "R", "w", "0", "K", "G", "g", "o", "B", "A", "Q", "=", "=">>>>
        /\ c.ret.res.RawImages = <<<<0, 0, 0>>, <<137, 80, 78, 71, 13, 10, 26, 10, 1, 1>>>>
        /\ c.ret.res.ParsedImages = <<Image1>>

\* C19, as stated: every operation returns exactly one of a result and an
\* error: the result is nil whenever the error is non-nil, and the result is
\* non-nil whenever the error is nil.
C19_ExactlyOne ==
    \A c \in Returned :
        /\ ~c.ret.err.nil => c.ret.res.nil
        /\ c.ret.err.nil => ~c.ret.res.nil

\* C19, amended: the result is nil whenever the error is non-nil; whenever
\* the error is nil the result is non-nil, except that GetModels returns a
\* nil list with a nil error when the body of the response is the JSON text
\* null.
C19_ResultOrError ==
    \A c \in Returned :
        /\ ~c.ret.err.nil => c.ret.res.nil
        /\ c.ret.err.nil =>
               (c.ret.res.nil <=>
                    (c.inv.op = "GetModels"
                         /\ c.resp.Body = <<"n", "u", "l", "l">>))

C19_Witness ==
    \E c \in Returned :
        /\ c.inv.op = "GetModels"
        /\ c.resp = Response(200, <<"n", "u", "l", "l">>, FALSE)
        /\ c.ret.err.nil
        /\ c.ret.res.nil

====
